---- MODULE Spec2Model ----
(***************************************************************************)
(* Withings Token Guardian (src/main.py): two POST routes that, after a    *)
(* shared-secret check, call refresh_withings_token(), which makes one     *)
(* outbound POST to the upstream admin endpoint and shapes its reply into  *)
(* a result dict.  A request handler is suspended at the awaited outbound  *)
(* call, so each handler is two steps: from arrival up to the await (or to *)
(* its response when no call is made), and from the upstream's reply to    *)
(* the response.  Logging is not modelled, and the timestamp of a response *)
(* is an opaque value.                                                     *)
(***************************************************************************)
EXTENDS Integers, Sequences, FiniteSets, TLC

(* ---------------------------- bounds ----------------------------------- *)
\* number of inbound requests in one behaviour
MaxRequests == 2

Requests == 1..MaxRequests

(* ------------------------- Python values ------------------------------- *)
\* Optional[str]: None is the empty tuple, a present value v is <<v>>
None == <<>>
Some(v) == <<v>>

\* dict.get(key): the value, or None when the key is absent
Get(d, k) == IF k \in DOMAIN d THEN Some(d[k]) ELSE None

\* str(e) of an exception
str(e) == e.msg

\* datetime.utcnow().isoformat(): the time of the response, which no handler
\* reads back and no other state depends on
utcnow_isoformat == "<utcnow>"

\* the two ways an awaited call ends
Returned(v) == [kind |-> "return", value |-> v]
Raised(e) == [kind |-> "raise", exc |-> e]

(* ------------------------- configuration ------------------------------- *)
WITHINGS_MCP_URL == "https://withings-mcp-production.up.railway.app"
\* values os.getenv can give ADMIN_API_TOKEN ("" when unset)
AdminTokenValues == {"", "a1"}
\* values os.getenv can give GUARDIAN_SECRET ("" when unset)
GuardianSecretValues == {"", "s1", "a1"}
\* values of the X-Guardian-Secret / X-Admin-Token request header
HeaderValues == {None, Some("s1"), Some("a1")}

WebhookRoute == "/webhook/refresh-needed"
RefreshRoute == "/refresh"

(* --------------------------- the upstream ------------------------------ *)
BodyFull == "{\"expires_at\":\"2025-01-01T00:00:00Z\",\"expires_in_seconds\":3600}"
BodyEmptyObject == "{}"
BodyArray == "[]"
BodyPlain == "service unavailable"

HttpResponse(s, b) == [kind |-> "response", status_code |-> s, text |-> b]
TransportFailure(t, m) == [kind |-> "exception", exc |-> [type |-> t, msg |-> m]]

\* what the awaited client.post can produce: a response, or an httpx exception
UpstreamReplies ==
    { HttpResponse(200, BodyFull), HttpResponse(200, BodyEmptyObject),
      HttpResponse(200, BodyArray), HttpResponse(200, BodyPlain),
      HttpResponse(503, BodyPlain), HttpResponse(401, BodyEmptyObject),
      TransportFailure("ReadTimeout", ""),
      TransportFailure("ConnectError", "All connection attempts failed") }

\* response.json(): json.loads of the body text, on the modelled bodies
JsonLoads(text) ==
    CASE text = BodyFull ->
           Returned([type |-> "dict",
                     members |-> [expires_at |-> "2025-01-01T00:00:00Z",
                                  expires_in_seconds |-> 3600]])
      [] text = BodyEmptyObject ->
           Returned([type |-> "dict", members |-> [k \in {} |-> None]])
      [] text = BodyArray ->
           Returned([type |-> "list", members |-> [k \in {} |-> None]])
      [] OTHER ->
           Raised([type |-> "JSONDecodeError",
                   msg |-> "Expecting value: line 1 column 1 (char 0)"])

VARIABLES
    ADMIN_API_TOKEN,   \* module global, read once at import
    GUARDIAN_SECRET,   \* module global, read once at import
    pc,                \* per request: "idle", "awaiting" (suspended in client.post), "done"
    route,             \* per request: the path it was sent to
    header,            \* per request: its auth header (Optional[str])
    relayCalls,        \* per request: invocations of refresh_withings_token
    posts,             \* per request: the outbound POSTs made for it, in order
    reply,             \* per request: the upstream's reply to its outbound call
    outcome,           \* per request: how the awaited relay call ended
    response           \* per request: the HTTP response sent back

vars == <<ADMIN_API_TOKEN, GUARDIAN_SECRET, pc, route, header,
          relayCalls, posts, reply, outcome, response>>

config == <<ADMIN_API_TOKEN, GUARDIAN_SECRET>>

(* --------------------------- Refresh Relay ----------------------------- *)
\* a relay without the precondition check
admin_token_missing_unchecked == FALSE

\* line 175: if not ADMIN_API_TOKEN
admin_token_missing == ADMIN_API_TOKEN = ""

\* lines 176-179: the result returned when the admin token is missing
NotConfiguredResult == [success |-> FALSE, error |-> "ADMIN_API_TOKEN not configured"]

\* lines 183-186: the outbound request
OutboundPost == [method |-> "POST",
                 url |-> WITHINGS_MCP_URL \o "/admin/token/refresh",
                 x_admin_token |-> ADMIN_API_TOKEN]

\* a retrying client: a second attempt follows the first
SendOutboundWithRetry(sent) == Append(Append(sent, OutboundPost), OutboundPost)

\* lines 182-186: the single client.post, appended to the POSTs already sent
SendOutbound(sent) == Append(sent, OutboundPost)

\* the non-200 branch formatting the error from the body text alone
ClassifyResponseNoStatus(rep) ==
    IF rep.status_code = 200
    THEN LET data == JsonLoads(rep.text) IN
         IF data.kind = "raise" THEN data
         ELSE IF data.value.type # "dict"
              THEN Raised([type |-> "AttributeError",
                           msg |-> "'" \o data.value.type \o "' object has no attribute 'get'"])
              ELSE Returned([success |-> TRUE,
                             expires_at |-> Get(data.value.members, "expires_at"),
                             expires_in_seconds |-> Get(data.value.members, "expires_in_seconds")])
    ELSE Returned([success |-> FALSE, error |-> "HTTP: " \o rep.text])

\* lines 188-202: classification of a received response (body of the try)
ClassifyResponse(rep) ==
    IF rep.status_code = 200
    THEN LET data == JsonLoads(rep.text) IN
         IF data.kind = "raise" THEN data
         ELSE IF data.value.type # "dict"
              THEN Raised([type |-> "AttributeError",
                           msg |-> "'" \o data.value.type \o "' object has no attribute 'get'"])
              ELSE Returned([success |-> TRUE,
                             expires_at |-> Get(data.value.members, "expires_at"),
                             expires_in_seconds |-> Get(data.value.members, "expires_in_seconds")])
    ELSE Returned([success |-> FALSE,
                   error |-> "HTTP " \o ToString(rep.status_code) \o ": " \o rep.text])

\* lines 181-202: the try block, given what client.post produced
TryBlock(rep) ==
    IF rep.kind = "exception" THEN Raised(rep.exc) ELSE ClassifyResponse(rep)

\* a relay without the except clause: the exception propagates
ExceptClauseReraise(o) == o

\* an except clause that stores the text under another key
ExceptClauseWrongKey(o) ==
    IF o.kind = "raise" THEN Returned([success |-> FALSE, message |-> str(o.exc)]) ELSE o

\* lines 204-209: except Exception as e
ExceptClause(o) ==
    IF o.kind = "raise" THEN Returned([success |-> FALSE, error |-> str(o.exc)]) ELSE o

\* refresh_withings_token from the point where client.post completes
refresh_withings_token(rep) == ExceptClause(TryBlock(rep))

(* ------------------------- HTTP Front Door ----------------------------- *)
\* a check that lets a request without the header through
refresh_needed_unauthorized_absent_ok(x_guardian_secret) ==
    /\ GUARDIAN_SECRET # ""
    /\ x_guardian_secret # None
    /\ x_guardian_secret # Some(GUARDIAN_SECRET)

\* line 78: if GUARDIAN_SECRET and x_guardian_secret != GUARDIAN_SECRET
refresh_needed_unauthorized(x_guardian_secret) ==
    GUARDIAN_SECRET # "" /\ x_guardian_secret # Some(GUARDIAN_SECRET)

\* a check without the truthiness test of the secret
manual_refresh_unauthorized_no_bypass(x_admin_token) ==
    x_admin_token # Some(GUARDIAN_SECRET)

\* a check of X-Admin-Token against the admin API token
manual_refresh_unauthorized_admin_token(x_admin_token) ==
    ADMIN_API_TOKEN # "" /\ x_admin_token # Some(ADMIN_API_TOKEN)

\* line 132: if GUARDIAN_SECRET and x_admin_token != GUARDIAN_SECRET
manual_refresh_unauthorized(x_admin_token) ==
    GUARDIAN_SECRET # "" /\ x_admin_token # Some(GUARDIAN_SECRET)

\* line 80
refresh_needed_401 == [status_code |-> 401, content |-> [detail |-> "Invalid guardian secret"]]
\* line 133
manual_refresh_401 == [status_code |-> 401, content |-> [detail |-> "Invalid admin token"]]

\* lines 84-118: the response of /webhook/refresh-needed for a relay outcome o
refresh_needed_response(o) ==
    IF o.kind = "raise"
    THEN [status_code |-> 500,
          content |-> [success |-> FALSE, message |-> "Token refresh exception",
                       error |-> Some(str(o.exc)), timestamp |-> utcnow_isoformat]]
    ELSE IF o.value.success
    THEN [status_code |-> 200,
          content |-> [success |-> TRUE, message |-> "Token refreshed successfully",
                       expires_at |-> Get(o.value, "expires_at")[1],
                       timestamp |-> utcnow_isoformat]]
    ELSE [status_code |-> 500,
          content |-> [success |-> FALSE, message |-> "Token refresh failed",
                       error |-> Get(o.value, "error"), timestamp |-> utcnow_isoformat]]

\* a /refresh whose failure branch answers 502
manual_refresh_response_502(o) ==
    IF o.kind = "raise"
    THEN [status_code |-> 500,
          content |-> [success |-> FALSE, message |-> "Exception during refresh",
                       error |-> Some(str(o.exc))]]
    ELSE IF o.value.success
    THEN [status_code |-> 200,
          content |-> [success |-> TRUE, message |-> "Token refreshed successfully",
                       expires_at |-> Get(o.value, "expires_at")[1],
                       timestamp |-> utcnow_isoformat]]
    ELSE [status_code |-> 502,
          content |-> [success |-> FALSE, message |-> "Token refresh failed",
                       error |-> Get(o.value, "error")]]

\* lines 137-165: the response of /refresh for a relay outcome o
manual_refresh_response(o) ==
    IF o.kind = "raise"
    THEN [status_code |-> 500,
          content |-> [success |-> FALSE, message |-> "Exception during refresh",
                       error |-> Some(str(o.exc))]]
    ELSE IF o.value.success
    THEN [status_code |-> 200,
          content |-> [success |-> TRUE, message |-> "Token refreshed successfully",
                       expires_at |-> Get(o.value, "expires_at")[1],
                       timestamp |-> utcnow_isoformat]]
    ELSE [status_code |-> 500,
          content |-> [success |-> FALSE, message |-> "Token refresh failed",
                       error |-> Get(o.value, "error")]]

\* the handler of path p shaping relay outcome o into its response
RouteResponse(p, o) ==
    IF p = WebhookRoute THEN refresh_needed_response(o) ELSE manual_refresh_response(o)

(* ------------------------------ state --------------------------------- *)
Init ==
    /\ ADMIN_API_TOKEN \in AdminTokenValues
    /\ GUARDIAN_SECRET \in GuardianSecretValues
    /\ pc = [r \in Requests |-> "idle"]
    /\ route = [r \in Requests |-> None]
    /\ header = [r \in Requests |-> None]
    /\ relayCalls = [r \in Requests |-> 0]
    /\ posts = [r \in Requests |-> <<>>]
    /\ reply = [r \in Requests |-> None]
    /\ outcome = [r \in Requests |-> None]
    /\ response = [r \in Requests |-> None]

\* A request arrives at path p with auth header h
Receive(r, p, h) ==
    /\ pc[r] = "idle"
    /\ route' = [route EXCEPT ![r] = Some(p)]
    /\ header' = [header EXCEPT ![r] = h]

\* raise HTTPException(status_code=401, ...): the handler ends before the relay
Reject(r, resp) ==
    /\ response' = [response EXCEPT ![r] = Some(resp)]
    /\ pc' = [pc EXCEPT ![r] = "done"]
    /\ UNCHANGED <<relayCalls, posts, reply, outcome>>

\* await refresh_withings_token(), up to its first suspension: the
\* precondition check, then either the immediate result (mapped by the
\* handler of path p) or the outbound POST
CallRelay(r, p) ==
    /\ relayCalls' = [relayCalls EXCEPT ![r] = @ + 1]
    /\ reply' = reply
    /\ IF admin_token_missing
       THEN /\ outcome' = [outcome EXCEPT ![r] = Some(Returned(NotConfiguredResult))]
            /\ response' = [response EXCEPT ![r] = Some(RouteResponse(p, Returned(NotConfiguredResult)))]
            /\ pc' = [pc EXCEPT ![r] = "done"]
            /\ posts' = posts
       ELSE /\ posts' = [posts EXCEPT ![r] = SendOutbound(@)]
            /\ pc' = [pc EXCEPT ![r] = "awaiting"]
            /\ UNCHANGED <<outcome, response>>

\* the awaited relay call of the handler of path p ends with outcome o
\* (rep: what client.post produced)
Resume(r, p, rep, o) ==
    /\ pc[r] = "awaiting"
    /\ reply' = [reply EXCEPT ![r] = rep]
    /\ outcome' = [outcome EXCEPT ![r] = Some(o)]
    /\ response' = [response EXCEPT ![r] = Some(RouteResponse(p, o))]
    /\ pc' = [pc EXCEPT ![r] = "done"]
    /\ UNCHANGED <<route, header, relayCalls, posts>>

\* POST /webhook/refresh-needed, lines 77-86: secret check and relay call
refresh_needed_begin(r, x_guardian_secret) ==
    /\ Receive(r, WebhookRoute, x_guardian_secret)
    /\ IF refresh_needed_unauthorized(x_guardian_secret)
       THEN Reject(r, refresh_needed_401)
       ELSE CallRelay(r, WebhookRoute)
    /\ UNCHANGED config

\* POST /webhook/refresh-needed, lines 86-118: the relay call returns
refresh_needed_end(r) ==
    /\ route[r] = Some(WebhookRoute)
    /\ \E rep \in UpstreamReplies :
          Resume(r, WebhookRoute, Some(rep), refresh_withings_token(rep))
    /\ UNCHANGED config

\* a /refresh that answers from an earlier successful refresh instead of
\* calling the relay again
manual_refresh_begin_dedup(r, x_admin_token) ==
    /\ Receive(r, RefreshRoute, x_admin_token)
    /\ IF manual_refresh_unauthorized(x_admin_token)
       THEN Reject(r, manual_refresh_401)
       ELSE IF \E q \in Requests : response[q] # None /\ response[q][1].status_code = 200
            THEN /\ response' = [response EXCEPT ![r] =
                        response[CHOOSE q \in Requests :
                                    response[q] # None /\ response[q][1].status_code = 200]]
                 /\ pc' = [pc EXCEPT ![r] = "done"]
                 /\ UNCHANGED <<relayCalls, posts, reply, outcome>>
            ELSE CallRelay(r, RefreshRoute)
    /\ UNCHANGED config

\* POST /refresh, lines 132-138: secret check and relay call
manual_refresh_begin(r, x_admin_token) ==
    /\ Receive(r, RefreshRoute, x_admin_token)
    /\ IF manual_refresh_unauthorized(x_admin_token)
       THEN Reject(r, manual_refresh_401)
       ELSE CallRelay(r, RefreshRoute)
    /\ UNCHANGED config

\* POST /refresh, lines 138-165: the relay call returns
manual_refresh_end(r) ==
    /\ route[r] = Some(RefreshRoute)
    /\ \E rep \in UpstreamReplies :
          Resume(r, RefreshRoute, Some(rep), refresh_withings_token(rep))
    /\ UNCHANGED config

Next ==
    \/ \E r \in Requests, h \in HeaderValues : refresh_needed_begin(r, h)
    \/ \E r \in Requests : refresh_needed_end(r)
    \/ \E r \in Requests, h \in HeaderValues : manual_refresh_begin(r, h)
    \/ \E r \in Requests : manual_refresh_end(r)

Spec == Init /\ [][Next]_vars

\* httpx.AsyncClient(timeout=30.0): the awaited client.post always completes,
\* with a response or with a timeout exception
FairSpec ==
    Spec /\ \A r \in Requests :
               WF_vars(refresh_needed_end(r)) /\ WF_vars(manual_refresh_end(r))

(* ---------------- the route handlers over any relay outcome ------------ *)
\* The handlers wrap the awaited relay call in try/except Exception.  Here
\* the awaited call is given every way of ending the handlers provide for:
\* each result the relay can return, and an exception escaping it.  (Under
\* Spec the relay's own except clause turns every Exception into a result,
\* so the handlers' except branches are exercised only here.)
EscapedException == [type |-> "RuntimeError", msg |-> "boom"]

AwaitOutcomes ==
    { refresh_withings_token(rep) : rep \in UpstreamReplies } \cup { Raised(EscapedException) }

\* lines 86-118 with the awaited call ending in any of AwaitOutcomes
refresh_needed_settle(r) ==
    /\ route[r] = Some(WebhookRoute)
    /\ \E o \in AwaitOutcomes : Resume(r, WebhookRoute, None, o)
    /\ UNCHANGED config

\* lines 138-165 with the awaited call ending in any of AwaitOutcomes
manual_refresh_settle(r) ==
    /\ route[r] = Some(RefreshRoute)
    /\ \E o \in AwaitOutcomes : Resume(r, RefreshRoute, None, o)
    /\ UNCHANGED config

NextRoutes ==
    \/ \E r \in Requests, h \in HeaderValues : refresh_needed_begin(r, h)
    \/ \E r \in Requests : refresh_needed_settle(r)
    \/ \E r \in Requests, h \in HeaderValues : manual_refresh_begin(r, h)
    \/ \E r \in Requests : manual_refresh_settle(r)

SpecRoutes == Init /\ [][NextRoutes]_vars

(* ============================== claims ================================= *)
Started(r) == pc[r] # "idle"
Answered(r) == response[r] # None
StatusOf(r) == response[r][1].status_code
ContentOf(r) == response[r][1].content
\* the request passed the shared-secret check of its route
PassedAuth(r) == Started(r) /\ (GUARDIAN_SECRET = "" \/ header[r] = Some(GUARDIAN_SECRET))

\* C1: a request to /webhook/refresh-needed whose X-Guardian-Secret is absent
\* or differs from a non-empty GUARDIAN_SECRET is answered exactly 401
\* "Invalid guardian secret", the relay is never invoked and no outbound POST
\* is made for it.
C1_WrongSecretRejected ==
    \A r \in Requests :
        ( /\ Started(r)
          /\ route[r] = Some(WebhookRoute)
          /\ GUARDIAN_SECRET # ""
          /\ header[r] # Some(GUARDIAN_SECRET) )
        => /\ pc[r] = "done"
           /\ response[r] = Some([status_code |-> 401,
                                  content |-> [detail |-> "Invalid guardian secret"]])
           /\ relayCalls[r] = 0
           /\ posts[r] = <<>>
           /\ outcome[r] = None

C1_Witness ==
    \E r1, r2 \in Requests :
        /\ GUARDIAN_SECRET # ""
        /\ route[r1] = Some(WebhookRoute) /\ header[r1] = None /\ Answered(r1)
        /\ route[r2] = Some(WebhookRoute) /\ header[r2] # None
        /\ header[r2] # Some(GUARDIAN_SECRET) /\ Answered(r2)

\* C2: with GUARDIAN_SECRET = "" the auth check is bypassed: no request to
\* either route is answered 401, whatever its header, and every request
\* reaches the relay.
C2_EmptySecretBypassesAuth ==
    GUARDIAN_SECRET = "" =>
        \A r \in Requests :
            Started(r) => /\ relayCalls[r] = 1
                          /\ Answered(r) => StatusOf(r) # 401

C2_Witness ==
    /\ GUARDIAN_SECRET = ""
    /\ \E r1, r2 \in Requests :
          /\ route[r1] = Some(WebhookRoute) /\ header[r1] = None /\ Answered(r1)
          /\ route[r2] = Some(RefreshRoute) /\ header[r2] # None /\ Answered(r2)

\* the body text is JSON / is a JSON object
IsJson(text) == text \in {BodyFull, BodyEmptyObject, BodyArray}
IsJsonObject(text) == text \in {BodyFull, BodyEmptyObject}
\* the expires_at member of the upstream's JSON body (null when absent)
UpstreamExpiresAt(text) == IF text = BodyFull THEN Some("2025-01-01T00:00:00Z") ELSE None
\* the error string the claim gives for a non-200 reply
ExpectedHttpError(rep) ==
    CASE rep.status_code = 503 /\ rep.text = BodyPlain -> "HTTP 503: service unavailable"
      [] rep.status_code = 401 /\ rep.text = BodyEmptyObject -> "HTTP 401: {}"
      [] OTHER -> "?"

\* an authenticated webhook request, admin token configured, answered after
\* the upstream sent an HTTP response
C3_Case(r) ==
    /\ route[r] = Some(WebhookRoute)
    /\ PassedAuth(r)
    /\ ADMIN_API_TOKEN # ""
    /\ pc[r] = "done"
    /\ reply[r] # None
    /\ reply[r][1].kind = "response"

C3_Non200(r) ==
    reply[r][1].status_code # 200 =>
        /\ outcome[r] = Some(Returned([success |-> FALSE,
                                       error |-> ExpectedHttpError(reply[r][1])]))
        /\ StatusOf(r) = 500
        /\ ContentOf(r).success = FALSE
        /\ ContentOf(r).error = Some(ExpectedHttpError(reply[r][1]))

C3_Ok(r) ==
    /\ StatusOf(r) = 200
    /\ ContentOf(r).success = TRUE
    /\ ContentOf(r).expires_at = UpstreamExpiresAt(reply[r][1].text)

\* C3 as stated: upstream 200 with a JSON body gives 200, success=true and the
\* upstream's expires_at; upstream status s # 200 with text b gives the relay
\* error "HTTP s: b" and a 500 carrying it.
C3_Original ==
    \A r \in Requests :
        C3_Case(r) =>
            /\ (reply[r][1].status_code = 200 /\ IsJson(reply[r][1].text)) => C3_Ok(r)
            /\ C3_Non200(r)

\* C3 amended: the 200 case holds when the JSON body is an object.
C3_UpstreamReplyMapped ==
    \A r \in Requests :
        C3_Case(r) =>
            /\ (reply[r][1].status_code = 200 /\ IsJsonObject(reply[r][1].text)) => C3_Ok(r)
            /\ C3_Non200(r)

C3_Witness ==
    \E r1, r2 \in Requests :
        /\ C3_Case(r1) /\ reply[r1][1] = HttpResponse(200, BodyFull)
        /\ C3_Case(r2) /\ reply[r2][1] = HttpResponse(503, BodyPlain)

\* C4: with ADMIN_API_TOKEN empty every relay invocation returns
\* success=false, error "ADMIN_API_TOKEN not configured", makes no outbound
\* POST, and the calling route answers 500 carrying that error.
C4_MissingAdminToken ==
    ADMIN_API_TOKEN = "" =>
        \A r \in Requests :
            /\ posts[r] = <<>>
            /\ relayCalls[r] > 0 =>
                  /\ pc[r] = "done"
                  /\ outcome[r] = Some(Returned([success |-> FALSE,
                                                 error |-> "ADMIN_API_TOKEN not configured"]))
                  /\ StatusOf(r) = 500
                  /\ ContentOf(r).error = Some("ADMIN_API_TOKEN not configured")

C4_Witness ==
    /\ ADMIN_API_TOKEN = ""
    /\ \E r1, r2 \in Requests :
          /\ route[r1] = Some(WebhookRoute) /\ relayCalls[r1] = 1
          /\ route[r2] = Some(RefreshRoute) /\ relayCalls[r2] = 1

WithoutTimestamp(resp) ==
    [status_code |-> resp.status_code,
     content |-> [k \in DOMAIN resp.content \ {"timestamp"} |-> resp.content[k]]]

\* C6: requests share no state: every request that passes auth has its own
\* relay invocation (and its own outbound POST when the admin token is set),
\* a rejected one has none; two answered requests with the same route, header
\* and upstream reply have the same response (up to the timestamp) whatever
\* happened to the other request before; and a /refresh request that passes
\* auth against a healthy upstream is answered 200.
C6_RequestsIndependent ==
    /\ \A r \in Requests :
          Started(r) =>
              /\ relayCalls[r] = IF PassedAuth(r) THEN 1 ELSE 0
              /\ Len(posts[r]) = IF PassedAuth(r) /\ ADMIN_API_TOKEN # "" THEN 1 ELSE 0
    /\ \A r1, r2 \in Requests :
          ( /\ pc[r1] = "done" /\ pc[r2] = "done"
            /\ route[r1] = route[r2]
            /\ header[r1] = header[r2]
            /\ reply[r1] = reply[r2] )
          => /\ outcome[r1] = outcome[r2]
             /\ WithoutTimestamp(response[r1][1]) = WithoutTimestamp(response[r2][1])
    /\ \A r \in Requests :
          ( /\ pc[r] = "done" /\ route[r] = Some(RefreshRoute) /\ PassedAuth(r)
            /\ reply[r] = Some(HttpResponse(200, BodyFull)) )
          => /\ StatusOf(r) = 200
             /\ ContentOf(r).success = TRUE

\* two /refresh calls against a healthy upstream, both answered
C6_Witness ==
    \E r1, r2 \in Requests :
        /\ r1 # r2
        /\ route[r1] = Some(RefreshRoute) /\ route[r2] = Some(RefreshRoute)
        /\ reply[r1] = Some(HttpResponse(200, BodyFull))
        /\ reply[r2] = Some(HttpResponse(200, BodyFull))
        /\ StatusOf(r1) = 200 /\ StatusOf(r2) = 200
        /\ Len(posts[r1]) = 1 /\ Len(posts[r2]) = 1

\* a webhook request and a /refresh request whose relay calls ended the same way
C7_Pair(r1, r2) ==
    /\ route[r1] = Some(WebhookRoute)
    /\ route[r2] = Some(RefreshRoute)
    /\ outcome[r1] # None
    /\ outcome[r1] = outcome[r2]

C7_SameButMessage(r1, r2) ==
    /\ StatusOf(r1) = StatusOf(r2)
    /\ ContentOf(r1).success = ContentOf(r2).success
    /\ Get(ContentOf(r1), "error") = Get(ContentOf(r2), "error")
    /\ Get(ContentOf(r1), "expires_at") = Get(ContentOf(r2), "expires_at")
    /\ "timestamp" \in DOMAIN ContentOf(r1)
    /\ "timestamp" \in DOMAIN ContentOf(r2) <=> StatusOf(r2) # 500

C8_ExactlyOneAttempt ==
    ADMIN_API_TOKEN # "" =>
        \A r \in Requests :
            /\ relayCalls[r] = 0 => posts[r] = <<>>
            /\ relayCalls[r] = 1 =>
                  posts[r] = << [method |-> "POST",
                                 url |-> "https://withings-mcp-production.up.railway.app/admin/token/refresh",
                                 x_admin_token |-> ADMIN_API_TOKEN] >>
            /\ outcome[r] # None => relayCalls[r] = 1 /\ Len(posts[r]) = 1

\* answered requests after a non-200 reply and after a timeout
C8_Witness ==
    \E r1, r2 \in Requests :
        /\ pc[r1] = "done" /\ reply[r1] = Some(HttpResponse(503, BodyPlain))
        /\ pc[r2] = "done" /\ reply[r2] = Some(TransportFailure("ReadTimeout", ""))
        /\ Len(posts[r1]) = 1 /\ Len(posts[r2]) = 1

\* the error the relay returns for a reply that is not a usable response
ExpectedFailureText(rep) ==
    CASE rep.kind = "exception" -> rep.exc.msg
      [] rep.kind = "response" /\ rep.text = BodyArray -> "'list' object has no attribute 'get'"
      [] OTHER -> "Expecting value: line 1 column 1 (char 0)"

C9_ReturnsResult ==
    \A r \in Requests :
        (pc[r] = "done" /\ relayCalls[r] = 1) =>
            /\ outcome[r] # None
            /\ outcome[r][1].kind = "return"
            /\ outcome[r][1].value.success \in BOOLEAN
            /\ ( reply[r] # None /\
                 ( \/ reply[r][1].kind = "exception"
                   \/ (reply[r][1].status_code = 200 /\ ~IsJsonObject(reply[r][1].text)) ) )
               => outcome[r][1].value =
                     [success |-> FALSE, error |-> ExpectedFailureText(reply[r][1])]

C10_ErrorIffFailure ==
    \A r \in Requests :
        (outcome[r] # None /\ outcome[r][1].kind = "return") =>
            LET res == outcome[r][1].value IN
            /\ res.success = TRUE => "error" \notin DOMAIN res
            /\ res.success = FALSE => "error" \in DOMAIN res

C10_Witness ==
    \E r1, r2 \in Requests :
        /\ outcome[r1] # None /\ outcome[r1][1].kind = "return" /\ outcome[r1][1].value.success
        /\ outcome[r2] # None /\ outcome[r2][1].kind = "return" /\ ~outcome[r2][1].value.success
====
